---- MODULE Spec2Model ----
(***************************************************************************)
(* Model of src/src/tools/memory.ts (manage_message: the per-chat history  *)
(* of the bot's own messages, recordBotMessage and the asynchronous        *)
(* execute handler with its delete / edit callbacks).                      *)
(*                                                                         *)
(* JavaScript runs one callback at a time: a handler runs without          *)
(* interruption up to its `await`, and between the await and its           *)
(* resumption any other handler may run.  Each execute is therefore two    *)
(* atomic steps: Execute (the code up to the await, or up to an early      *)
(* return) and Resume (the code after the await).                          *)
(*                                                                         *)
(* The array held in recentMessages for a chat is one object for the life  *)
(* of the process: recordBotMessage pushes onto the array it got from the  *)
(* map, and execute's local `messages` is that same array.  After the      *)
(* await `messages` is thus the chat's CURRENT history, while msgId and    *)
(* idx are the values computed before the await.                           *)
(***************************************************************************)
EXTENDS Integers, Sequences, FiniteSets, TLC

VARIABLES
    recentMessages,         \* chatId -> array of message ids (<<>> when the map has no entry)
    deleteMessageCallback,  \* TRUE when a delete callback has been set (non-null)
    editMessageCallback,    \* TRUE when an edit callback has been set (non-null)
    calls,                  \* slot -> the execute call in progress, or Idle
    sent,                   \* history variable: chatId -> every id recorded, in order
    shrunk,                 \* history variable: chatId -> TRUE once execute removed an entry
    nOps,                   \* number of execute calls made so far
    search,                 \* web.ts: the executeSearchWeb call in progress, or SearchIdle
    file,                   \* memory.ts: MEMORY.md, Absent while it does not exist
    memResult               \* memory.ts: what the memory tool's execute returned last

vars == <<recentMessages, deleteMessageCallback, editMessageCallback, calls,
          sent, shrunk, nOps, search, file, memResult>>

\* the state of the other tools, which manage_message does not touch
toolVars == <<search, file, memResult>>
\* the state of manage_message, which the other tools do not touch
manageVars == <<recentMessages, deleteMessageCallback, editMessageCallback, calls,
                sent, shrunk, nOps>>

----------------------------------------------------------------------------
(* Program constant and bounds *)

MAX_STORED == 20

\* number of recordBotMessage calls explored for chat 1, which goes past capacity
MaxSends == 21
\* number of recordBotMessage calls explored for each other chat
MaxOtherSends == 1
\* number of execute calls explored
MaxOps == 2
\* number of recordBotMessage calls explored while an execute call is awaiting
MaxRace == 1
\* delete_by_index is tried with every index from -(MaxIndex + 1) to MaxIndex
MaxIndex == 1
\* most sections appended to MEMORY.md
MaxNotes == 3
\* longest list of results a search provider is taken to return
MaxProviderResults == 6

\* web.ts: r.content.slice(0, 400)
SNIPPET_CHARS == 400

Chats == {1, 2}
Slots == {1}

\* the platform numbers the messages of a chat in increasing order
NextId(chatId, n) == 100 * chatId + n + 1

----------------------------------------------------------------------------
(* Values *)

\* an optional argument: <<>> when absent, <<v>> when present
Absent == <<>>
Some(v) == <<v>>

NewTexts == {Absent, Some(""), Some("fixed typo")}

\* the index arguments explored against a history of the given length: none,
\* every index within MaxIndex of zero, and the first index past either end
Indices(length) ==
    {Absent} \cup {Some(i) : i \in (-(MaxIndex + 1) .. MaxIndex) \cup {length, -length - 1}}

\* the argument objects explored: index matters to delete_by_index only,
\* new_text to edit_last only
ArgSet(length) ==
    {[action |-> "delete_last", index |-> Absent, new_text |-> Absent],
     [action |-> "pin_last", index |-> Absent, new_text |-> Absent]}
    \cup {[action |-> "delete_by_index", index |-> i, new_text |-> Absent] :
             i \in Indices(length)}
    \cup {[action |-> "edit_last", index |-> Absent, new_text |-> t] : t \in NewTexts}

\* a string built from a template and the numbers substituted into it
Str(fmt, nums) == [fmt |-> fmt, nums |-> nums]
Undefined == Str("undefined", <<>>)

Outcomes == {"true", "false", "throw"}

----------------------------------------------------------------------------
(* Array and argument helpers (JavaScript semantics, arrays indexed from 0) *)

\* messages[i]: the element at i, or undefined (written 0, which is no message
\* id) when i is outside the array
At(messages, i) == IF i >= 0 /\ i < Len(messages) THEN messages[i + 1] ELSE 0

\* an insertion at the front (messages.unshift(messageId))
PushFront(messages, messageId) == <<messageId>> \o messages

\* messages.push(messageId)
Push(messages, messageId) == Append(messages, messageId)

\* a shift that drops the newest element instead of the oldest (messages.pop())
ShiftNewest(messages) ==
    IF messages = <<>> THEN <<>> ELSE SubSeq(messages, 1, Len(messages) - 1)

\* messages.shift(): drops the first element
Shift(messages) == IF messages = <<>> THEN <<>> ELSE Tail(messages)

\* messages.pop(): drops the last element (nothing to drop on an empty array)
Pop(messages) ==
    IF messages = <<>> THEN <<>> ELSE SubSeq(messages, 1, Len(messages) - 1)

\* a splice without its delete count (messages.splice(idx)): drops idx and all after
SpliceToEnd(messages, idx) ==
    IF idx >= Len(messages) THEN messages ELSE SubSeq(messages, 1, idx)

\* messages.splice(idx, 1) for idx >= 0: drops the element at idx; a start at
\* or past the end drops nothing
Splice(messages, idx) ==
    IF idx >= Len(messages) THEN messages
    ELSE SubSeq(messages, 1, idx) \o SubSeq(messages, idx + 2, Len(messages))

\* a check for a missing new_text only (args.new_text === undefined)
FalsyUndefinedOnly(new_text) == new_text = Absent

\* !args.new_text: undefined and the empty string are falsy
Falsy(new_text) == new_text = Absent \/ new_text[1] = ""

\* a resolution that counts a negative index from the last position
ResolveIndexOffByOne(index, length) ==
    LET idx == IF index = Absent THEN -1 ELSE index[1]
    IN  IF idx < 0 THEN length - 1 + idx ELSE idx

\* a default of 0, the oldest message, for an omitted index (args.index ?? 0)
ResolveIndexDefaultOldest(index, length) ==
    LET idx == IF index = Absent THEN 0 ELSE index[1]
    IN  IF idx < 0 THEN length + idx ELSE idx

\* let idx = args.index ?? -1; if (idx < 0) idx = messages.length + idx;
ResolveIndex(index, length) ==
    LET idx == IF index = Absent THEN -1 ELSE index[1]
    IN  IF idx < 0 THEN length + idx ELSE idx

\* a range check that lets idx = messages.length through
InvalidIndexInclusive(idx, length) == idx < 0 \/ idx > length

\* idx < 0 || idx >= messages.length
InvalidIndex(idx, length) == idx < 0 \/ idx >= length

\* an emptiness check that never fires
NoMessagesSkipped(messages) == FALSE

\* messages.length === 0
NoMessages(messages) == Len(messages) = 0

\* one flag for both callbacks
ConfiguredEither(gw, delCb, editCb) == delCb \/ editCb

\* the callback an action needs is set: deleteMessageCallback for the deletes,
\* editMessageCallback for edit_last
Configured(gw, delCb, editCb) == IF gw = "delete" THEN delCb ELSE editCb

----------------------------------------------------------------------------
(* recordBotMessage and getRecentMessages *)

\* a recordBotMessage without its capacity check
RecordedUnbounded(messages, messageId) == Push(messages, messageId)

\* the array recordBotMessage leaves in the map
Recorded(messages, messageId) ==
    LET pushed == Push(messages, messageId)
    IN  IF Len(pushed) > MAX_STORED THEN Shift(pushed) ELSE pushed

getRecentMessages(chatId) == recentMessages[chatId]

----------------------------------------------------------------------------
(* execute *)

\* a failure that carries no error text (return { success: false })
FailBare(error) ==
    [await |-> FALSE, gw |-> "none", msgId |-> 0, idx |-> 0,
     success |-> FALSE, output |-> Undefined, error |-> Undefined]

Fail(error) ==
    [await |-> FALSE, gw |-> "none", msgId |-> 0, idx |-> 0,
     success |-> FALSE, output |-> Undefined, error |-> error]

Await(gw, msgId, idx) ==
    [await |-> TRUE, gw |-> gw, msgId |-> msgId, idx |-> idx,
     success |-> FALSE, output |-> Undefined, error |-> Undefined]

\* execute from its first line to its first await or early return
Dispatch(args, messages, delCb, editCb) ==
    IF NoMessages(messages) THEN Fail(Str("No recent messages to manage", <<>>))
    ELSE CASE args.action = "delete_last" ->
                IF ~Configured("delete", delCb, editCb)
                THEN Fail(Str("Delete not configured", <<>>))
                ELSE Await("delete", At(messages, Len(messages) - 1), Len(messages) - 1)
           [] args.action = "delete_by_index" ->
                IF ~Configured("delete", delCb, editCb)
                THEN Fail(Str("Delete not configured", <<>>))
                ELSE LET idx == ResolveIndex(args.index, Len(messages))
                     IN  IF InvalidIndex(idx, Len(messages))
                         THEN Fail(Str("Invalid index. Have %d messages (0-%d)",
                                       <<Len(messages), Len(messages) - 1>>))
                         ELSE Await("delete", At(messages, idx), idx)
           [] args.action = "edit_last" ->
                IF ~Configured("edit", delCb, editCb)
                THEN Fail(Str("Edit not configured", <<>>))
                ELSE IF Falsy(args.new_text)
                     THEN Fail(Str("new_text required for edit", <<>>))
                     ELSE Await("edit", At(messages, Len(messages) - 1), Len(messages) - 1)
           [] OTHER -> Fail(Str("Unknown action: %s", <<>>))

\* a removal that does not look at the callback's answer
AfterDeleteUnchecked(action, idx, messages, outcome) ==
    IF action = "delete_last" THEN Pop(messages) ELSE Splice(messages, idx)

\* the array left by the code after `await deleteMessageCallback(...)`
AfterDelete(action, idx, messages, outcome) ==
    IF outcome = "true"
    THEN IF action = "delete_last" THEN Pop(messages) ELSE Splice(messages, idx)
    ELSE messages

\* an edit_last branch that kept the pop of the delete_last branch it was
\* copied from
SettleEditRemoves(action, idx, messages, outcome) ==
    CASE action = "delete_last" ->
            [messages |-> AfterDelete(action, idx, messages, outcome),
             success |-> outcome = "true",
             output |-> IF outcome = "true" THEN Str("Deleted last message", <<>>)
                        ELSE Undefined,
             error |-> CASE outcome = "true" -> Undefined
                         [] outcome = "false" ->
                              Str("Failed to delete (maybe already deleted or too old)", <<>>)
                         [] OTHER -> Str("Delete failed: %s", <<>>)]
      [] action = "delete_by_index" ->
            [messages |-> AfterDelete(action, idx, messages, outcome),
             success |-> outcome = "true",
             output |-> IF outcome = "true" THEN Str("Deleted message at index %d", <<idx>>)
                        ELSE Undefined,
             error |-> CASE outcome = "true" -> Undefined
                         [] outcome = "false" -> Str("Failed to delete", <<>>)
                         [] OTHER -> Str("Delete failed: %s", <<>>)]
      [] OTHER ->
            [messages |-> IF outcome = "true" THEN Pop(messages) ELSE messages,
             success |-> outcome = "true",
             output |-> IF outcome = "true" THEN Str("Edited last message", <<>>)
                        ELSE Undefined,
             error |-> CASE outcome = "true" -> Undefined
                         [] outcome = "false" ->
                              Str("Failed to edit (maybe too old or contains media)", <<>>)
                         [] OTHER -> Str("Edit failed: %s", <<>>)]

\* execute from its await to its return: the array it leaves and what it returns
Settle(action, idx, messages, outcome) ==
    CASE action = "delete_last" ->
            [messages |-> AfterDelete(action, idx, messages, outcome),
             success |-> outcome = "true",
             output |-> IF outcome = "true" THEN Str("Deleted last message", <<>>)
                        ELSE Undefined,
             error |-> CASE outcome = "true" -> Undefined
                         [] outcome = "false" ->
                              Str("Failed to delete (maybe already deleted or too old)", <<>>)
                         [] OTHER -> Str("Delete failed: %s", <<>>)]
      [] action = "delete_by_index" ->
            [messages |-> AfterDelete(action, idx, messages, outcome),
             success |-> outcome = "true",
             output |-> IF outcome = "true" THEN Str("Deleted message at index %d", <<idx>>)
                        ELSE Undefined,
             error |-> CASE outcome = "true" -> Undefined
                         [] outcome = "false" -> Str("Failed to delete", <<>>)
                         [] OTHER -> Str("Delete failed: %s", <<>>)]
      [] OTHER ->
            [messages |-> messages,
             success |-> outcome = "true",
             output |-> IF outcome = "true" THEN Str("Edited last message", <<>>)
                        ELSE Undefined,
             error |-> CASE outcome = "true" -> Undefined
                         [] outcome = "false" ->
                              Str("Failed to edit (maybe too old or contains media)", <<>>)
                         [] OTHER -> Str("Edit failed: %s", <<>>)]

----------------------------------------------------------------------------
(* web.ts: executeSearchWeb *)

\* the values explored for zaiApiKey and tavilyApiKey
ApiKeys == {Absent, Some(""), Some("key")}

\* if (zaiApiKey), if (tavilyApiKey): undefined and "" are falsy
KeySet(key) == key # Absent /\ key[1] # ""

\* a result as a provider sends it: content is the length of its text, or
\* Absent when the provider sent none
ResultKinds ==
    {[title |-> "a", date |-> Absent, content |-> Some(3)],
     [title |-> "b", date |-> Some("2024-05-01"), content |-> Some(401)],
     [title |-> "c", date |-> Absent, content |-> Absent]}

\* the result lists a provider may answer with
Responses == UNION {[1 .. n -> ResultKinds] : n \in 0 .. MaxProviderResults}

\* searchZai's map: title, url, content and date are taken over
MapZai(results) == results

\* searchTavily's map: title, url and content are taken over, no date
MapTavily(results) == [i \in 1 .. Len(results) |-> [results[i] EXCEPT !.date = Absent]]

\* a choice of provider that tries Tavily before Z.AI
FirstProviderTavily(zaiKey, tavilyKey) ==
    IF KeySet(tavilyKey) THEN "tavily" ELSE IF KeySet(zaiKey) THEN "zai" ELSE "none"

\* the provider executeSearchWeb calls first
FirstProvider(zaiKey, tavilyKey) ==
    IF KeySet(zaiKey) THEN "zai" ELSE IF KeySet(tavilyKey) THEN "tavily" ELSE "none"

\* the catch around searchZai: go on to Tavily when its key is set, else rethrow
Fallback(tavilyKey) == IF KeySet(tavilyKey) THEN "tavily" ELSE "throw"

\* content.slice(0, 400) on a text of n characters
Slice(n) == IF n > SNIPPET_CHARS THEN SNIPPET_CHARS ELSE n

NoOutput == [text |-> "undefined", items |-> <<>>]

\* executeSearchWeb from `if (!results.length)` to its return; r.content.slice
\* throws when a result has no content, which the outer catch turns into a failure
Render(results) ==
    IF Len(results) = 0
    THEN [success |-> TRUE, output |-> [text |-> "(no results)", items |-> <<>>],
          error |-> "undefined"]
    ELSE IF \E i \in 1 .. Len(results) : results[i].content = Absent
    THEN [success |-> FALSE, output |-> NoOutput,
          error |-> "Cannot read properties of undefined (reading 'slice')"]
    ELSE [success |-> TRUE,
          output |-> [text |-> "[n] title (date) url content",
                      items |-> [i \in 1 .. Len(results) |->
                                   [n |-> i, title |-> results[i].title,
                                    date |-> results[i].date,
                                    content |-> Slice(results[i].content[1])]]],
          error |-> "undefined"]

\* pc: "idle", "zai" (awaiting searchZai), "tavily" (awaiting searchTavily),
\* "done"; contacted: the providers called, in order; zai, tavily: how each
\* call ended ("none", "ok", "failed"); results: the list rendered
SearchIdle == [pc |-> "idle", zaiKey |-> Absent, tavilyKey |-> Absent,
               contacted |-> <<>>, zai |-> "none", tavily |-> "none",
               results |-> <<>>, success |-> FALSE, output |-> NoOutput,
               error |-> "undefined"]

Finished(call, r) ==
    [call EXCEPT !.pc = "done", !.success = r.success, !.output = r.output,
                 !.error = r.error]

Failed(call, error) ==
    [call EXCEPT !.pc = "done", !.success = FALSE, !.error = error]

\* executeSearchWeb is called: it runs to its first await or to the
\* configuration error
SearchWeb(zaiKey, tavilyKey) ==
    /\ search.pc = "idle"
    /\ LET first == FirstProvider(zaiKey, tavilyKey)
           call == [SearchIdle EXCEPT !.zaiKey = zaiKey, !.tavilyKey = tavilyKey]
       IN  search' =
              IF first = "none"
              THEN Failed(call, "No search API configured (ZAI_API_KEY or TAVILY_API_KEY)")
              ELSE [call EXCEPT !.pc = first, !.contacted = <<first>>]
    /\ UNCHANGED <<manageVars, file, memResult>>

\* searchZai resolves with the provider's results
ZaiResponds(results) ==
    /\ search.pc = "zai"
    /\ search' = Finished([search EXCEPT !.zai = "ok", !.results = MapZai(results)],
                          Render(MapZai(results)))
    /\ UNCHANGED <<manageVars, file, memResult>>

\* searchZai throws (fetch rejects, or the response is not ok)
ZaiFails ==
    /\ search.pc = "zai"
    /\ search' =
          IF Fallback(search.tavilyKey) = "tavily"
          THEN [search EXCEPT !.zai = "failed", !.pc = "tavily",
                              !.contacted = Append(@, "tavily")]
          ELSE Failed([search EXCEPT !.zai = "failed"], "Z.AI error")
    /\ UNCHANGED <<manageVars, file, memResult>>

\* searchTavily resolves with the provider's results
TavilyResponds(results) ==
    /\ search.pc = "tavily"
    /\ search' = Finished([search EXCEPT !.tavily = "ok", !.results = MapTavily(results)],
                          Render(MapTavily(results)))
    /\ UNCHANGED <<manageVars, file, memResult>>

\* searchTavily throws
TavilyFails ==
    /\ search.pc = "tavily"
    /\ search' = Failed([search EXCEPT !.tavily = "failed"], "Tavily error")
    /\ UNCHANGED <<manageVars, file, memResult>>

\* the caller takes the result
SearchReturn ==
    /\ search.pc = "done"
    /\ search' = SearchIdle
    /\ UNCHANGED <<manageVars, file, memResult>>

SearchNext ==
    \/ \E zaiKey \in ApiKeys, tavilyKey \in ApiKeys : SearchWeb(zaiKey, tavilyKey)
    \/ \E results \in Responses : ZaiResponds(results)
    \/ ZaiFails
    \/ \E results \in Responses : TavilyResponds(results)
    \/ TavilyFails
    \/ SearchReturn

----------------------------------------------------------------------------
(* memory.ts: the memory tool's execute (MEMORY.md) *)

\* The text of MEMORY.md is a sequence of chunks: the header that clear and
\* the first append write, and one section per append with its timestamp and
\* content.
Header == [kind |-> "header", ts |-> 0, content |-> ""]
Section(ts, content) == [kind |-> "section", ts |-> ts, content |-> content]

\* the minutes new Date() may fall in, and the contents explored
Times == {1, 2}
NoteContents == {Absent, Some(""), Some("todo"), Some("use pnpm")}
MemoryActions == {"read", "append", "clear", "forget"}

\* args.content.length
Chars(content) == IF content = "todo" THEN 4 ELSE IF content = "use pnpm" THEN 8 ELSE 0

\* !args.content
NoContent(content) == content = Absent \/ content[1] = ""

\* existsSync(memoryPath)
Exists(f) == f # Absent

\* append's `existing`: the file's text, or the header when there is no file
Existing(f) == IF Exists(f) THEN f[1] ELSE <<Header>>

\* an append that writes the header and the new entry only
AppendedOverwriting(existing, entry) == <<Header, entry>>

\* existing + entry
Appended(existing, entry) == existing \o <<entry>>

NoText == <<>>
MemOk(msg, text, n) ==
    [success |-> TRUE, output |-> [msg |-> msg, text |-> text, n |-> n],
     error |-> "undefined"]
MemFail(error) ==
    [success |-> FALSE, output |-> [msg |-> "undefined", text |-> NoText, n |-> 0],
     error |-> error]

\* The body of execute: the file it leaves and the result it returns. fsOk
\* is FALSE when readFileSync or writeFileSync throws in this call; the catch
\* turns that into a failure and the file is left as it was.
MemoryRun(action, content, ts, fsOk, f) ==
    CASE action = "read" ->
            IF ~Exists(f) THEN [file |-> f, r |-> MemOk("(memory is empty)", NoText, 0)]
            ELSE IF ~fsOk THEN [file |-> f, r |-> MemFail("file system error")]
            ELSE IF f[1] = NoText
                 THEN [file |-> f, r |-> MemOk("(memory is empty)", NoText, 0)]
                 ELSE [file |-> f, r |-> MemOk("content", f[1], 0)]
      [] action = "append" ->
            IF NoContent(content)
            THEN [file |-> f, r |-> MemFail("Content required for append")]
            ELSE IF ~fsOk THEN [file |-> f, r |-> MemFail("file system error")]
            ELSE [file |-> Some(Appended(Existing(f), Section(ts, content[1]))),
                  r |-> MemOk("Added to memory (%d chars)", NoText, Chars(content[1]))]
      [] action = "clear" ->
            IF ~fsOk THEN [file |-> f, r |-> MemFail("file system error")]
            ELSE [file |-> Some(<<Header>>), r |-> MemOk("Memory cleared", NoText, 0)]
      [] OTHER -> [file |-> f, r |-> MemFail("Unknown action: %s")]

\* the sections in the file
Sections(f) == IF Exists(f) THEN Len(f[1]) ELSE 0

NoMemResult == [action |-> "", content |-> Absent, ts |-> 0, fsOk |-> TRUE,
                success |-> FALSE,
                output |-> [msg |-> "undefined", text |-> NoText, n |-> 0],
                error |-> "undefined"]

\* execute(args, cwd) of the memory tool, one synchronous call
MemoryExecute(action, content, ts, fsOk) ==
    /\ action = "append" => Sections(file) <= MaxNotes
    /\ LET run == MemoryRun(action, content, ts, fsOk, file)
       IN  /\ file' = run.file
           /\ memResult' = [action |-> action, content |-> content, ts |-> ts,
                            fsOk |-> fsOk, success |-> run.r.success,
                            output |-> run.r.output, error |-> run.r.error]
    /\ UNCHANGED <<manageVars, search>>

NoteNext ==
    \E action \in MemoryActions, content \in NoteContents, ts \in Times,
       fsOk \in BOOLEAN : MemoryExecute(action, content, ts, fsOk)

----------------------------------------------------------------------------
(* State *)

NoArgs == [action |-> "", index |-> Absent, new_text |-> Absent]

\* A call of execute is "awaiting" from its callback invocation to the
\* callback's outcome, then "returned" until its caller takes the result.
\* gw, msgId and text are the callback invoked and the arguments passed to it;
\* idx is the local idx; hist0 is the chat's history and at the number of
\* messages recorded when execute was called; invocations counts the callback
\* invocations the call has made.
Idle == [phase |-> "idle", chatId |-> 0, args |-> NoArgs, gw |-> "none",
         msgId |-> 0, text |-> "", idx |-> 0, hist0 |-> <<>>, at |-> 0,
         invocations |-> 0, outcome |-> "none",
         success |-> FALSE, output |-> Undefined, error |-> Undefined]

Init ==
    /\ recentMessages = [c \in Chats |-> <<>>]
    /\ deleteMessageCallback = FALSE
    /\ editMessageCallback = FALSE
    /\ calls = [s \in Slots |-> Idle]
    /\ sent = [c \in Chats |-> <<>>]
    /\ shrunk = [c \in Chats |-> FALSE]
    /\ nOps = 0
    /\ search = SearchIdle
    /\ file = Absent
    /\ memResult = NoMemResult

TotalSent == Len(sent[1]) + Len(sent[2])

SendBound(chatId) == IF chatId = 1 THEN MaxSends ELSE MaxOtherSends

\* An async function's result reaches its caller in the microtask that follows
\* its return, before the event loop runs another handler: no other operation
\* starts while a call is in phase "returned".
NoneReturned == \A s \in Slots : calls[s].phase # "returned"

\* fewer than MaxRace messages were recorded since any awaiting call began
RaceAllowed ==
    \A s \in Slots : calls[s].phase = "awaiting" => TotalSent - calls[s].at < MaxRace

----------------------------------------------------------------------------
(* Operations *)

\* a recordBotMessage that keeps one array for all chats
RecordBotMessageShared(chatId) ==
    /\ NoneReturned
    /\ Len(sent[chatId]) < SendBound(chatId)
    /\ RaceAllowed
    /\ LET messageId == NextId(chatId, Len(sent[chatId]))
       IN  /\ recentMessages' =
                 [c \in Chats |-> Recorded(recentMessages[chatId], messageId)]
           /\ sent' = [sent EXCEPT ![chatId] = Append(@, messageId)]
    /\ UNCHANGED <<deleteMessageCallback, editMessageCallback, calls, shrunk, nOps>>
    /\ UNCHANGED toolVars

RecordBotMessage(chatId) ==
    /\ NoneReturned
    /\ Len(sent[chatId]) < SendBound(chatId)
    /\ RaceAllowed
    /\ LET messageId == NextId(chatId, Len(sent[chatId]))
       IN  /\ recentMessages' =
                 [recentMessages EXCEPT ![chatId] = Recorded(@, messageId)]
           /\ sent' = [sent EXCEPT ![chatId] = Append(@, messageId)]
    /\ UNCHANGED <<deleteMessageCallback, editMessageCallback, calls, shrunk, nOps>>
    /\ UNCHANGED toolVars

SetDeleteMessageCallback ==
    /\ NoneReturned
    /\ deleteMessageCallback' = TRUE
    /\ UNCHANGED <<recentMessages, editMessageCallback, calls, sent, shrunk, nOps>>
    /\ UNCHANGED toolVars

SetEditMessageCallback ==
    /\ NoneReturned
    /\ editMessageCallback' = TRUE
    /\ UNCHANGED <<recentMessages, deleteMessageCallback, calls, sent, shrunk, nOps>>
    /\ UNCHANGED toolVars

\* execute is called: it runs to its callback invocation or to an early return
Execute(slot, chatId, args) ==
    /\ NoneReturned
    /\ nOps < MaxOps
    /\ calls[slot] = Idle
    /\ nOps' = nOps + 1
    /\ LET messages == recentMessages[chatId]
           d == Dispatch(args, messages, deleteMessageCallback, editMessageCallback)
       IN  calls' = [calls EXCEPT ![slot] =
                [phase |-> IF d.await THEN "awaiting" ELSE "returned",
                 chatId |-> chatId, args |-> args, gw |-> d.gw, msgId |-> d.msgId,
                 text |-> IF d.gw = "edit" THEN args.new_text[1] ELSE "",
                 idx |-> d.idx, hist0 |-> messages, at |-> TotalSent,
                 invocations |-> IF d.await THEN 1 ELSE 0, outcome |-> "none",
                 success |-> d.success, output |-> d.output, error |-> d.error]]
    /\ UNCHANGED <<recentMessages, deleteMessageCallback, editMessageCallback,
                   sent, shrunk>>
    /\ UNCHANGED toolVars

\* an execute that invokes the callback again when it answers false
ResumeRetrying(slot, outcome) ==
    /\ NoneReturned
    /\ calls[slot].phase = "awaiting"
    /\ LET p == calls[slot]
           messages == recentMessages[p.chatId]
           s == Settle(p.args.action, p.idx, messages, outcome)
       IN  IF outcome = "false"
           THEN /\ calls' = [calls EXCEPT ![slot].invocations = @ + 1]
                /\ UNCHANGED <<recentMessages, shrunk>>
           ELSE /\ recentMessages' = [recentMessages EXCEPT ![p.chatId] = s.messages]
                /\ shrunk' = [shrunk EXCEPT ![p.chatId] = @ \/ s.messages # messages]
                /\ calls' = [calls EXCEPT ![slot] =
                       [p EXCEPT !.phase = "returned", !.outcome = outcome,
                                 !.success = s.success, !.output = s.output,
                                 !.error = s.error]]
    /\ UNCHANGED <<deleteMessageCallback, editMessageCallback, sent, nOps>>
    /\ UNCHANGED toolVars

\* the callback's promise settles and execute runs from its await to its return
Resume(slot, outcome) ==
    /\ NoneReturned
    /\ calls[slot].phase = "awaiting"
    /\ LET p == calls[slot]
           messages == recentMessages[p.chatId]
           s == Settle(p.args.action, p.idx, messages, outcome)
       IN  /\ recentMessages' = [recentMessages EXCEPT ![p.chatId] = s.messages]
           /\ shrunk' = [shrunk EXCEPT ![p.chatId] = @ \/ s.messages # messages]
           /\ calls' = [calls EXCEPT ![slot] =
                  [p EXCEPT !.phase = "returned", !.outcome = outcome,
                            !.success = s.success, !.output = s.output,
                            !.error = s.error]]
    /\ UNCHANGED <<deleteMessageCallback, editMessageCallback, sent, nOps>>
    /\ UNCHANGED toolVars

\* the caller takes the returned result
Return(slot) ==
    /\ calls[slot].phase = "returned"
    /\ calls' = [calls EXCEPT ![slot] = Idle]
    /\ UNCHANGED <<recentMessages, deleteMessageCallback, editMessageCallback,
                   sent, shrunk, nOps>>
    /\ UNCHANGED toolVars

Next ==
    \/ \E chatId \in Chats : RecordBotMessage(chatId)
    \/ SetDeleteMessageCallback
    \/ SetEditMessageCallback
    \/ \E slot \in Slots, chatId \in Chats :
          \E args \in ArgSet(Len(recentMessages[chatId])) : Execute(slot, chatId, args)
    \/ \E slot \in Slots, outcome \in Outcomes : Resume(slot, outcome)
    \/ \E slot \in Slots : Return(slot)

Spec == Init /\ [][Next]_vars

\* the web search tool alone
SpecSearch == Init /\ [][SearchNext]_vars

\* the memory tool alone
SpecNote == Init /\ [][NoteNext]_vars

----------------------------------------------------------------------------
(* Properties *)

Min(a, b) == IF a < b THEN a ELSE b
Range(seq) == {seq[i] : i \in 1 .. Len(seq)}
Deletes == {"delete_last", "delete_by_index"}

\* this step is execute being called in the slot (its code up to the await)
Called(s) == calls[s].phase = "idle" /\ calls'[s].phase # "idle"
\* this step is the slot's execute running from its await to its return
Resumed(s) == calls[s].phase = "awaiting" /\ calls'[s].phase = "returned"
\* the call in the slot returned without invoking a callback
Refused(c, error) ==
    /\ c.phase = "returned" /\ c.outcome = "none" /\ c.gw = "none"
    /\ c.success = FALSE /\ c.error = error /\ c.output = Undefined

\* C1: FIFO eviction law. On a chat from which execute never removed an entry,
\* after N recordBotMessage calls getRecentMessages has length min(N, 20) and
\* is the last min(N, 20) recorded ids in the order they were recorded.
C1_FifoEviction ==
    \A c \in Chats :
        ~shrunk[c] =>
            LET N == Len(sent[c])
                k == Min(N, 20)
            IN  /\ Len(getRecentMessages(c)) = k
                /\ getRecentMessages(c) = SubSeq(sent[c], N - k + 1, N)

\* 21 messages were recorded on a chat, so the oldest was evicted
C1_Witness == \E c \in Chats : ~shrunk[c] /\ Len(sent[c]) > 20

\* C2: capacity invariant. In every reachable state, whatever the interleaving
\* of records and manage_message operations, no history is longer than 20.
C2_Capacity == \A c \in Chats : Len(recentMessages[c]) <= 20

\* a message was recorded on a full history while a callback was pending
C2_Witness ==
    \E s \in Slots :
        /\ calls[s].phase = "awaiting"
        /\ Len(calls[s].hist0) = 20
        /\ Len(sent[calls[s].chatId]) > 20
        /\ TotalSent > calls[s].at
        /\ Len(recentMessages[calls[s].chatId]) = 20

\* C3: a failed delete leaves the history unchanged. When the delete callback
\* answers false or throws, the step that resumes execute reports failure and
\* changes no history.
C3_FailedDeleteKeepsHistory ==
    [][\A s \in Slots :
          (/\ Resumed(s)
           /\ calls[s].gw = "delete"
           /\ calls'[s].outcome \in {"false", "throw"})
          => /\ calls'[s].success = FALSE
             /\ calls'[s].error # Undefined
             /\ recentMessages' = recentMessages]_vars

\* a delete_by_index whose callback threw has returned
C3_Witness ==
    \E s \in Slots :
        /\ calls[s].phase = "returned"
        /\ calls[s].args.action = "delete_by_index"
        /\ calls[s].outcome = "throw"
        /\ Len(recentMessages[calls[s].chatId]) >= 2

\* the position (from 0) a delete call addresses in a history of the given length
Target(args, length) ==
    IF args.action = "delete_last" THEN length - 1
    ELSE IF args.index[1] >= 0 THEN args.index[1] ELSE length + args.index[1]

\* C4: a successful delete removes exactly the target. When the chat's history
\* at the callback's answer is the one execute was called on and the answer is
\* true, the history afterwards is the one before without the element at the
\* resolved position, the rest in order, one shorter.
C4_DeleteRemovesTarget ==
    [][\A s \in Slots :
          (/\ Resumed(s)
           /\ calls[s].gw = "delete"
           /\ calls'[s].outcome = "true"
           /\ calls[s].args.action = "delete_by_index" => calls[s].args.index # Absent
           /\ recentMessages[calls[s].chatId] = calls[s].hist0)
          => LET before == calls[s].hist0
                 after == recentMessages'[calls[s].chatId]
                 r == Target(calls[s].args, Len(before))
             IN  /\ calls'[s].success = TRUE
                 /\ Len(after) = Len(before) - 1
                 /\ \A j \in 1 .. Len(after) :
                       after[j] = IF j <= r THEN before[j] ELSE before[j + 1]
                 /\ before[r + 1] = calls[s].msgId]_vars

\* a delete_by_index with a negative index removed an entry from the middle
C4_Witness ==
    \E s \in Slots :
        /\ calls[s].phase = "returned"
        /\ calls[s].args.action = "delete_by_index"
        /\ calls[s].args.index # Absent
        /\ calls[s].args.index[1] < 0
        /\ calls[s].outcome = "true"
        /\ calls[s].idx > 0
        /\ calls[s].idx < Len(calls[s].hist0) - 1
        /\ TotalSent = calls[s].at

\* C5: removal only by eviction or confirmed delete. An id leaves a chat's
\* history in a step only if that step records a message on the full history
\* and the id is its oldest entry, or that step resumes a delete whose callback
\* answered true and the id is the one that was passed to the callback.
C5_RemovalOnlyByEvictionOrConfirmedDelete ==
    [][\A c \in Chats :
          \A x \in Range(recentMessages[c]) \ Range(recentMessages'[c]) :
              \/ /\ sent'[c] # sent[c]
                 /\ Len(recentMessages[c]) = 20
                 /\ x = recentMessages[c][1]
              \/ \E s \in Slots :
                    /\ Resumed(s)
                    /\ calls[s].chatId = c
                    /\ calls[s].gw = "delete"
                    /\ calls'[s].outcome = "true"
                    /\ calls[s].msgId = x]_vars

\* C6: NoHistory gate. execute called for a chat with an empty history returns
\* the NoHistory failure whatever the action, arguments and callbacks, without
\* invoking a callback, and changes no history.
C6_NoHistoryGate ==
    [][\A s \in Slots :
          (Called(s) /\ recentMessages[calls'[s].chatId] = <<>>)
          => /\ Refused(calls'[s], Str("No recent messages to manage", <<>>))
             /\ recentMessages' = recentMessages]_vars

\* edit_last with a new text returned on an empty history, both callbacks set
C6_Witness ==
    \E s \in Slots :
        /\ calls[s].phase = "returned"
        /\ calls[s].hist0 = <<>>
        /\ calls[s].args.action = "edit_last"
        /\ ~Falsy(calls[s].args.new_text)
        /\ deleteMessageCallback /\ editMessageCallback

\* C7: GatewayUnavailable gate. On a non-empty history a delete without a
\* delete callback, and an edit_last without an edit callback, return the
\* GatewayUnavailable failure whatever the index or new_text and whether or not
\* the other callback is set, invoke no callback and change no history.
C7_GatewayUnavailableGate ==
    [][\A s \in Slots :
          (Called(s) /\ recentMessages[calls'[s].chatId] # <<>>)
          => /\ (calls'[s].args.action \in Deletes /\ ~deleteMessageCallback)
                  => /\ Refused(calls'[s], Str("Delete not configured", <<>>))
                     /\ recentMessages' = recentMessages
             /\ (calls'[s].args.action = "edit_last" /\ ~editMessageCallback)
                  => /\ Refused(calls'[s], Str("Edit not configured", <<>>))
                     /\ recentMessages' = recentMessages]_vars

\* a delete_by_index was refused for want of a delete callback while the edit
\* callback was set
C7_Witness ==
    \E s \in Slots :
        /\ calls[s].phase = "returned"
        /\ calls[s].args.action = "delete_by_index"
        /\ calls[s].error = Str("Delete not configured", <<>>)
        /\ calls[s].hist0 # <<>>
        /\ editMessageCallback /\ ~deleteMessageCallback

\* C8: index range check. With the delete callback set and a history of length
\* L >= 1, delete_by_index(idx) with idx >= L or idx < -L returns the
\* IndexOutOfRange failure naming L and the range 0..L-1, invokes no callback
\* and changes no history; with -L <= idx < L it invokes the delete callback
\* with the id at position idx (idx >= 0) or L + idx (idx < 0).
C8_IndexRange ==
    [][\A s \in Slots :
          (/\ Called(s)
           /\ calls'[s].args.action = "delete_by_index"
           /\ calls'[s].args.index # Absent
           /\ deleteMessageCallback
           /\ recentMessages[calls'[s].chatId] # <<>>)
          => LET h == recentMessages[calls'[s].chatId]
                 L == Len(h)
                 idx == calls'[s].args.index[1]
             IN  IF idx >= L \/ idx < -L
                 THEN /\ Refused(calls'[s],
                                 Str("Invalid index. Have %d messages (0-%d)", <<L, L - 1>>))
                      /\ recentMessages' = recentMessages
                 ELSE /\ calls'[s].phase = "awaiting"
                      /\ calls'[s].gw = "delete"
                      /\ calls'[s].msgId = IF idx >= 0 THEN h[idx + 1] ELSE h[L + idx + 1]]_vars

\* a negative index below -L was refused on a history of two or more
C8_Witness ==
    \E s \in Slots :
        /\ calls[s].phase = "returned"
        /\ calls[s].args.action = "delete_by_index"
        /\ calls[s].args.index # Absent
        /\ calls[s].args.index[1] < 0
        /\ calls[s].error.fmt = "Invalid index. Have %d messages (0-%d)"
        /\ Len(calls[s].hist0) >= 2

DeleteLastArgs == [action |-> "delete_last", index |-> Absent, new_text |-> Absent]
DeleteNewestArgs == [action |-> "delete_by_index", index |-> Some(-1), new_text |-> Absent]

\* C9: negative-index equivalence. From every state with a non-empty history,
\* delete_by_index(-1) and delete_last are refused alike or pass the same id
\* to the delete callback, and for each answer of the callback report the same
\* success and leave the same history.
C9_NegativeIndexEquivalence ==
    \A c \in Chats :
        recentMessages[c] # <<>> =>
            LET h == recentMessages[c]
                a == Dispatch(DeleteLastArgs, h, deleteMessageCallback, editMessageCallback)
                b == Dispatch(DeleteNewestArgs, h, deleteMessageCallback, editMessageCallback)
            IN  /\ a.await = b.await
                /\ a.gw = b.gw
                /\ a.msgId = b.msgId
                /\ a.success = b.success
                /\ a.await =>
                      /\ a.msgId = h[Len(h)]
                      /\ \A o \in Outcomes :
                            LET ra == Settle("delete_last", a.idx, h, o)
                                rb == Settle("delete_by_index", b.idx, h, o)
                            IN  ra.messages = rb.messages /\ ra.success = rb.success

\* delete_by_index(-1) removed the newest of several entries
C9_Witness ==
    \E s \in Slots :
        /\ calls[s].phase = "returned"
        /\ calls[s].args = DeleteNewestArgs
        /\ calls[s].outcome = "true"
        /\ Len(calls[s].hist0) >= 2
        /\ calls[s].msgId = calls[s].hist0[Len(calls[s].hist0)]

\* C10 as stated: edit_last on a non-empty history without new_text (absent or
\* empty) returns the MissingContent failure, invokes no callback and changes
\* no history.
C10_MissingContentAlways ==
    [][\A s \in Slots :
          (/\ Called(s)
           /\ calls'[s].args.action = "edit_last"
           /\ calls'[s].args.new_text \in {Absent, Some("")}
           /\ recentMessages[calls'[s].chatId] # <<>>)
          => /\ Refused(calls'[s], Str("new_text required for edit", <<>>))
             /\ recentMessages' = recentMessages]_vars

\* C10, amended: with the edit callback set, edit_last on a non-empty history
\* without new_text (absent or empty) returns the MissingContent failure,
\* invokes no callback and changes no history.
C10_MissingContent ==
    [][\A s \in Slots :
          (/\ Called(s)
           /\ calls'[s].args.action = "edit_last"
           /\ calls'[s].args.new_text \in {Absent, Some("")}
           /\ editMessageCallback
           /\ recentMessages[calls'[s].chatId] # <<>>)
          => /\ Refused(calls'[s], Str("new_text required for edit", <<>>))
             /\ recentMessages' = recentMessages]_vars

\* edit_last with an empty new_text was refused with the edit callback set
C10_Witness ==
    \E s \in Slots :
        /\ calls[s].phase = "returned"
        /\ calls[s].args.action = "edit_last"
        /\ calls[s].args.new_text = Some("")
        /\ calls[s].error = Str("new_text required for edit", <<>>)
        /\ editMessageCallback
        /\ calls[s].hist0 # <<>>

\* C11: edit never mutates the store. Calling edit_last and resuming it change
\* no history whatever the callbacks and the callback's answer, and when
\* edit_last invokes the edit callback it passes the newest id of the chat and
\* the new_text it was given.
C11_EditKeepsStore ==
    [][\A s \in Slots :
          /\ (Called(s) /\ calls'[s].args.action = "edit_last")
                => /\ recentMessages' = recentMessages
                   /\ calls'[s].phase = "awaiting"
                         => LET h == recentMessages[calls'[s].chatId]
                            IN  /\ calls'[s].gw = "edit"
                                /\ calls'[s].msgId = h[Len(h)]
                                /\ calls'[s].text = calls'[s].args.new_text[1]
          /\ (Resumed(s) /\ calls[s].args.action = "edit_last")
                => recentMessages' = recentMessages]_vars

\* an edit_last of the newest of several entries returned success
C11_Witness ==
    \E s \in Slots :
        /\ calls[s].phase = "returned"
        /\ calls[s].args.action = "edit_last"
        /\ calls[s].outcome = "true"
        /\ calls[s].success
        /\ Len(recentMessages[calls[s].chatId]) >= 2

\* every precondition of the call holds: a non-empty history, a known action,
\* its callback set, the index in range, the new text not empty
Passes(args, h, delCb, editCb) ==
    /\ h # <<>>
    /\ CASE args.action = "delete_last" -> delCb
         [] args.action = "delete_by_index" ->
              /\ delCb
              /\ LET i == IF args.index = Absent THEN -1 ELSE args.index[1]
                 IN  -Len(h) <= i /\ i < Len(h)
         [] args.action = "edit_last" ->
              editCb /\ args.new_text \notin {Absent, Some("")}
         [] OTHER -> FALSE

\* C12: no retries. A call invokes a callback once when every precondition
\* holds and never otherwise; whatever the callback answers, the call then
\* returns without invoking a callback again.
C12_NoRetries ==
    [][\A s \in Slots :
          /\ Called(s)
                => calls'[s].invocations =
                      IF Passes(calls'[s].args, recentMessages[calls'[s].chatId],
                                deleteMessageCallback, editMessageCallback)
                      THEN 1 ELSE 0
          /\ (calls[s].phase = "awaiting" /\ calls'[s] # calls[s])
                => /\ calls'[s].phase = "returned"
                   /\ calls'[s].invocations = 1
          /\ calls[s].phase = "returned" => calls'[s].phase \in {"returned", "idle"}]_vars

\* a delete whose callback answered false has returned
C12_Witness ==
    \E s \in Slots :
        /\ calls[s].phase = "returned"
        /\ calls[s].args.action = "delete_last"
        /\ calls[s].outcome = "false"
        /\ calls[s].invocations = 1

C14_PerKeyIndependence ==
    [][\A c \in Chats :
          recentMessages'[c] # recentMessages[c]
          => \/ sent'[c] # sent[c]
             \/ \E s \in Slots : Resumed(s) /\ calls[s].chatId = c]_vars

\* chat 1 evicted and had an entry deleted while chat 2 kept its history
C14_Witness ==
    \E s \in Slots :
        /\ calls[s].phase = "returned"
        /\ calls[s].chatId = 1
        /\ calls[s].gw = "delete"
        /\ calls[s].outcome = "true"
        /\ Len(sent[1]) > 20
        /\ recentMessages[2] = sent[2]
        /\ recentMessages[2] # <<>>

\* seq is a subsequence of full, whose entries are distinct: the entries of
\* full that occur in seq, in the order of full, are seq itself
IsSubsequence(seq, full) ==
    LET kept == Range(seq)
    IN  SelectSeq(full, LAMBDA id : id \in kept) = seq

\* C15: send-order invariant. In every reachable state each chat's history is
\* a subsequence of the ids recorded for the chat, in the order they were
\* recorded; and a step that records a message appends its id at the end.
C15_SendOrder ==
    \A c \in Chats :
        /\ IsSubsequence(recentMessages[c], sent[c])
        /\ (~shrunk[c] /\ sent[c] # <<>>)
              => recentMessages[c][Len(recentMessages[c])] = sent[c][Len(sent[c])]

\* a history that evicted its oldest entry and lost another to a delete
C15_Witness ==
    \E c \in Chats :
        /\ shrunk[c]
        /\ Len(sent[c]) > 20
        /\ Len(recentMessages[c]) >= 3
        /\ recentMessages[c][Len(recentMessages[c])] = sent[c][Len(sent[c])]

\* C19: confirmed delete implies untracked. When a delete returns success, the
\* id that was passed to the delete callback is no longer in the chat's history.
C19_ConfirmedDeleteUntracked ==
    \A s \in Slots :
        (/\ calls[s].phase = "returned"
         /\ calls[s].gw = "delete"
         /\ calls[s].success)
        => calls[s].msgId \notin Range(recentMessages[calls[s].chatId])

\* C20: omitted index defaults to newest. With the delete callback set and a
\* non-empty history, delete_by_index without an index is not refused and
\* reaches the delete callback exactly as delete_by_index(-1) does from the
\* same state: same callback, the newest id, the same local idx.
C20_OmittedIndexIsNewest ==
    [][\A s \in Slots :
          (/\ Called(s)
           /\ calls'[s].args.action = "delete_by_index"
           /\ calls'[s].args.index = Absent
           /\ deleteMessageCallback
           /\ recentMessages[calls'[s].chatId] # <<>>)
          => LET h == recentMessages[calls'[s].chatId]
                 d == Dispatch(DeleteNewestArgs, h, deleteMessageCallback,
                               editMessageCallback)
             IN  /\ calls'[s].phase = "awaiting"
                 /\ calls'[s].gw = "delete"
                 /\ calls'[s].msgId = h[Len(h)]
                 /\ calls'[s].idx = Len(h) - 1
                 /\ d.await /\ d.gw = calls'[s].gw
                 /\ d.msgId = calls'[s].msgId /\ d.idx = calls'[s].idx]_vars

\* delete_by_index without an index removed the newest of several entries
C20_Witness ==
    \E s \in Slots :
        /\ calls[s].phase = "returned"
        /\ calls[s].args.action = "delete_by_index"
        /\ calls[s].args.index = Absent
        /\ calls[s].outcome = "true"
        /\ Len(calls[s].hist0) >= 2
        /\ recentMessages[calls[s].chatId] = SubSeq(calls[s].hist0, 1, Len(calls[s].hist0) - 1)

\* a key that is configured: present and not empty
HasKey(key) == key \notin {Absent, Some("")}

\* C16: search provider fallback order. Z.AI is called first when its key is
\* configured; Tavily is called only when its key is configured and Z.AI is
\* not configured or its call failed, never after a Z.AI success, and always
\* after a Z.AI failure when its key is configured; with neither key the call
\* fails with the configuration error and contacts no provider; when Z.AI
\* fails with no Tavily key, or the last provider called fails, success is false.
C16_FallbackOrder ==
    search.pc # "idle" =>
        LET zc == HasKey(search.zaiKey)
            tc == HasKey(search.tavilyKey)
            called == Range(search.contacted)
        IN  /\ zc <=> "zai" \in called
            /\ zc => search.contacted[1] = "zai"
            /\ "tavily" \in called <=> tc /\ (~zc \/ search.zai = "failed")
            /\ search.zai = "ok" => "tavily" \notin called
            /\ Len(search.contacted) = Cardinality(called)
            /\ (~zc /\ ~tc)
                  => /\ search.pc = "done"
                     /\ search.contacted = <<>>
                     /\ ~search.success
                     /\ search.error =
                           "No search API configured (ZAI_API_KEY or TAVILY_API_KEY)"
            /\ (search.pc = "done"
                  /\ (\/ search.zai = "failed" /\ ~tc
                      \/ search.tavily = "failed"))
                  => ~search.success /\ search.output = NoOutput

\* Z.AI failed, Tavily was called after it and answered with results
C16_Witness ==
    /\ search.pc = "done"
    /\ search.contacted = <<"zai", "tavily">>
    /\ search.zai = "failed"
    /\ search.tavily = "ok"
    /\ search.success
    /\ Len(search.results) >= 2

\* C17: search result bound. A successful executeSearchWeb output lists at
\* most 5 results, numbered 1..n in the order the provider returned them.
C17_AtMostFiveResults ==
    (search.pc = "done" /\ search.success)
    => LET items == search.output.items
       IN  /\ Len(items) <= 5
           /\ Len(items) = Len(search.results)
           /\ \A i \in 1 .. Len(items) :
                 items[i].n = i /\ items[i].title = search.results[i].title

\* the text append builds on: the stored one, or the header when there is none
Previous == IF file = Absent THEN <<Header>> ELSE file[1]

\* C18 as stated: append with non-empty content always succeeds and leaves the
\* previous text (or the header) followed by one new section with the
\* timestamp and the content; append without content fails and leaves the note
\* unchanged; only clear replaces the note, by exactly the header.
C18_AppendOnlyAlways ==
    [][LET r == memResult'
       IN  /\ (r.action = "append" /\ r.content \notin {Absent, Some("")})
                 => /\ r.success
                    /\ file' = Some(Previous \o <<Section(r.ts, r.content[1])>>)
           /\ (r.action = "append" /\ r.content \in {Absent, Some("")})
                 => ~r.success /\ file' = file
           /\ (r.action = "clear" /\ r.success) => file' = Some(<<Header>>)
           /\ r.action \notin {"append", "clear"} => file' = file]_vars

\* C18, amended: append with non-empty content succeeds unless a file-system
\* call throws, and a successful append leaves the previous text (or the
\* header) followed by one new section with the timestamp and the content; an
\* append whose file-system call throws reports failure; append without
\* content fails and leaves the note unchanged; clear, unless a file-system
\* call throws, replaces the note by exactly the header, and no other action
\* changes the note.
C18_AppendOnly ==
    [][LET r == memResult'
       IN  /\ (r.action = "append" /\ r.content \notin {Absent, Some("")})
                 => /\ r.success <=> r.fsOk
                    /\ r.success
                          => file' = Some(Previous \o <<Section(r.ts, r.content[1])>>)
           /\ (r.action = "append" /\ r.content \in {Absent, Some("")})
                 => ~r.success /\ file' = file
           /\ (r.action = "clear" /\ r.fsOk) => r.success /\ file' = Some(<<Header>>)
           /\ r.action \notin {"append", "clear"} => file' = file]_vars

\* an append succeeded on a note that already held a section
C18_Witness ==
    /\ memResult.action = "append"
    /\ memResult.success
    /\ file # Absent
    /\ Len(file[1]) >= 3
    /\ file[1][1] = Header
    /\ file[1][Len(file[1])] = Section(memResult.ts, memResult.content[1])

====
